---- MODULE Spec2Model ----
(***************************************************************************)
(* Real-time notification layer of server.js: socket sessions, the rooms   *)
(* they join (adminRoom, user_<id>), the catalog / order / visitor         *)
(* broadcasts, and the push notifier with its in-memory subscription list. *)
(*                                                                         *)
(* Every socket handler that awaits a lookup is split at the await: the    *)
(* synchronous part runs in one step and leaves a continuation in a bag    *)
(* of pending lookups; the continuation runs in a later step, interleaved  *)
(* with every other event of the single-threaded event loop.  A send       *)
(* request is split the same way: one step up to its await, one step per   *)
(* delivery that settles.                                                  *)
(***************************************************************************)
EXTENDS Bags, FiniteSets, Integers, Sequences, TLC

(***************************************************************************)
(* Bounds                                                                  *)
(***************************************************************************)
\* handlers awaiting a lookup at the same time
MaxPending == 1
\* subscribe requests served, in Spec (sockets) and in SpecPush (push notifier)
MaxSubs == 1
MaxSubscribes == 2
\* send requests received
MaxSends == 2

Sessions == {"s1", "s2"}

(***************************************************************************)
(* The users collection: u1 is an administrator, u2 a customer.             *)
(***************************************************************************)
Users == {"u1", "u2"}
IsAdmin(u) == u = "u1"

(***************************************************************************)
(* Room names                                                              *)
(***************************************************************************)
AdminRoom == "adminRoom"
UserRoom(u) == "user_" \o u
UserRooms == {UserRoom(u) : u \in Users}

(***************************************************************************)
(* What a client can send as the credential of joinAdmin / joinUser.       *)
(*   nopayload  joinUser called with undefined / null instead of {token}   *)
(*   nonstring  the token is undefined, a number, an object, ...           *)
(*   malformed  a string that is not a JWT                                 *)
(*   badsig     a JWT whose signature or expiry does not verify            *)
(*   signed     a JWT signed with JWT_SECRET carrying {id}                 *)
(* bearer tells whether the string starts with 'Bearer '.                  *)
(***************************************************************************)
NoToken == [kind |-> "none", bearer |-> FALSE, id |-> "none"]
Tokens ==
  [kind : {"nonstring", "malformed", "badsig"}, bearer : {FALSE}, id : {"none"}]
    \cup [kind : {"signed"}, bearer : BOOLEAN, id : Users]
NoPayloadToken == [kind |-> "nopayload", bearer |-> FALSE, id |-> "none"]

\* token.replace('Bearer ', ''): throws on a non-string, strips the prefix otherwise
TokenReplace(tok) ==
  IF tok.kind \in {"nonstring", "nopayload"} THEN [tok EXCEPT !.kind = "throw"]
  ELSE [tok EXCEPT !.bearer = FALSE]

\* jwt.verify(str, JWT_SECRET): the decoded id, or "throw"
JwtVerify(str) ==
  IF str.kind = "signed" /\ ~str.bearer THEN str.id ELSE "throw"

\* User.findById(id): the stored user, null (no such user, or deleted since the
\* token was issued), or a rejected query
FindUserById(id) == {id, "null", "error"}

(***************************************************************************)
(* The orders collection after populate('user'): o1 belongs to u2, the     *)
(* owner of o2 no longer exists (populate yields null).                    *)
(***************************************************************************)
OrderIds == {"o1", "o2"}
NoOrder == [shape |-> "none", _id |-> "none", user |-> "none"]
OrderDoc(o) == [shape |-> "object", _id |-> o, user |-> IF o = "o1" THEN "u2" ELSE "none"]

\* Order.findById(id).populate('user'): the stored order, null (not stored, or
\* deleted in the meantime), or a rejected query
FindOrderById(o) == {"found", "null", "error"}

(***************************************************************************)
(* What a client can send with orderStatusUpdate.  shape is "missing"      *)
(* (undefined / null), "nonobject" (a string, a number) or "object"; _id   *)
(* is "none" when the object has none; user is "none" (no user field),     *)
(* "ref" (a user field without _id, such as an unpopulated id) or the _id  *)
(* of the populated user.                                                  *)
(***************************************************************************)
OrderInputs ==
  {[shape |-> "missing", _id |-> "none", user |-> "none"],
   [shape |-> "nonobject", _id |-> "none", user |-> "none"],
   [shape |-> "object", _id |-> "none", user |-> "u2"]}
    \cup [shape : {"object"}, _id : {"o1"}, user : {"none", "ref"} \cup Users]
    \cup [shape : {"object"}, _id : {"o2"}, user : {"none"}]

Endpoints == {"e1"}

\* A send request that holds no registration: what is kept of a request once
\* it has been answered
NoSend == [userId |-> "none", targetSubscriptions |-> <<>>, settled |-> <<>>,
           answer |-> "none"]

VARIABLES
  alive,             \* the server process is running
  status,            \* per session: "new", "connected", "closed"
  rooms,             \* per session: the rooms the adapter lists it in
  pendingJoin,       \* bag of joinAdmin / joinUser handlers awaiting User.findById
  pendingOrder,      \* bag of orderStatusUpdate handlers awaiting Order.findById
  pushSubscriptions, \* the in-memory list of push subscriptions
  subscribed,        \* number of subscribe requests served: the n-th request body is object n
  rejected,          \* the objects whose delivery some send has seen rejected
  sends,             \* the /api/push/send requests received, in order of arrival
  emitted,           \* the io.to(room).emit calls of the step just taken, in order
  delivered,         \* per session: the events the step just taken sent to it
  adminAuthed,       \* connected sessions whose joinAdmin found an admin user
  userAuthed,        \* per connected session, the users its joinUser calls found
  last               \* the handler step just taken

vars == <<alive, status, rooms, pendingJoin, pendingOrder, pushSubscriptions, subscribed,
          rejected, sends, emitted, delivered, adminAuthed, userAuthed, last>>

\* last.cred: for a join step, whether the credential presented verified
\*   ("failed", "verified") or is still being looked up ("pending")
\* last.res: for the step that ends a lookup, what the lookup returned; for an
\*   order step that starts one, "pending"
\* last.was: for a disconnect step, the status of the socket before it
\* last.order: for an order step, the order received
\* last.send: for the step that answers a send request, the request as it ended
NoLast == [op |-> "none", sess |-> "none", cred |-> "none", res |-> "none",
           was |-> "none", order |-> NoOrder, send |-> NoSend]

\* Credential verification as the claims state it: the token must be a string
\* holding a JWT signed with the secret, the user it names must exist, and for
\* joinAdmin that user must have isAdmin
TokenVerifies(tok) == tok.kind = "signed"
UserVerifies(op, res) == res \in Users /\ (op = "joinAdmin" => IsAdmin(res))
Cred(ok) == IF ok THEN "verified" ELSE "failed"

Pending == BagCardinality(pendingJoin) + BagCardinality(pendingOrder)
Nothing == [t \in Sessions |-> <<>>]

Init ==
  /\ alive = TRUE
  /\ status = [s \in Sessions |-> "new"]
  /\ rooms = [s \in Sessions |-> {}]
  /\ pendingJoin = EmptyBag
  /\ pendingOrder = EmptyBag
  /\ pushSubscriptions = <<>>
  /\ subscribed = 0
  /\ rejected = {}
  /\ sends = <<>>
  /\ emitted = <<>>
  /\ delivered = Nothing
  /\ adminAuthed = {}
  /\ userAuthed = [s \in Sessions |-> {}]
  /\ last = NoLast

(***************************************************************************)
(* Socket library operations used by the handlers                          *)
(***************************************************************************)
\* socket.disconnect() / transport close: a connected socket leaves every room
\* and is closed; on a socket that is already closed nothing happens
StatusAfterDisconnect(s) ==
  IF status[s] = "connected" THEN [status EXCEPT ![s] = "closed"] ELSE status
RoomsAfterDisconnect(s) ==
  IF status[s] = "connected" THEN [rooms EXCEPT ![s] = {}] ELSE rooms

\* socket.join(room): the adapter lists the socket in the room.  Called on a
\* socket that is already closed, the library either still lists it or ignores
\* the call, depending on its version.
RoomsAfterJoin(s, room) ==
  {[rooms EXCEPT ![s] = @ \cup {room}]}
    \cup (IF status[s] = "connected" THEN {} ELSE {rooms})

\* io.to(room).emit(name, payload) reaches every connected socket listed in the
\* room; Deliver gives, for a sequence of emits, what each session receives
Receivers(room) == {t \in Sessions : status[t] = "connected" /\ room \in rooms[t]}
Deliver(emits) ==
  [t \in Sessions |->
     LET Reaches(e) == t \in Receivers(e.room)
         got == SelectSeq(emits, Reaches)
     IN [i \in 1..Len(got) |-> [name |-> got[i].name, payload |-> got[i].payload]]]

\* bookkeeping of the two history variables: s is the session of the step, admin
\* tells whether its joinAdmin lookup found an admin, users the users its
\* joinUser lookup found; a session that is not connected has no history
Remember(s, admin, users) ==
  /\ adminAuthed' = {t \in adminAuthed \cup (IF admin THEN {s} ELSE {}) :
                       status'[t] = "connected"}
  /\ userAuthed' = [t \in Sessions |->
                      IF status'[t] # "connected" THEN {}
                      ELSE IF t = s THEN userAuthed[t] \cup users ELSE userAuthed[t]]

(***************************************************************************)
(* io.on('connection')                                                     *)
(***************************************************************************)
Connect(s) ==
  /\ alive
  /\ status[s] = "new"
  /\ status' = [status EXCEPT ![s] = "connected"]
  /\ emitted' = <<>>
  /\ delivered' = Nothing
  /\ last' = [NoLast EXCEPT !.op = "connection", !.sess = s]
  /\ UNCHANGED <<alive, rooms, pendingJoin, pendingOrder, pushSubscriptions, sends,
                 subscribed, rejected>>
  /\ Remember(s, FALSE, {})

\* Disconnect with the leave-all step forgotten
Disconnect_KeepRooms(s) ==
  /\ alive
  /\ status[s] \in {"connected", "closed"}
  /\ status' = StatusAfterDisconnect(s)
  /\ rooms' = rooms
  /\ emitted' = <<>>
  /\ delivered' = Nothing
  /\ last' = [NoLast EXCEPT !.op = "disconnect", !.sess = s, !.was = status[s]]
  /\ UNCHANGED <<alive, pendingJoin, pendingOrder, pushSubscriptions, sends, subscribed,
                 rejected>>
  /\ Remember(s, FALSE, {})

(***************************************************************************)
(* Disconnect handling: the client or the transport closes the socket, or  *)
(* a close is reported again for a socket that is already closed.          *)
(***************************************************************************)
Disconnect(s) ==
  /\ alive
  /\ status[s] \in {"connected", "closed"}
  /\ status' = StatusAfterDisconnect(s)
  /\ rooms' = RoomsAfterDisconnect(s)
  /\ emitted' = <<>>
  /\ delivered' = Nothing
  /\ last' = [NoLast EXCEPT !.op = "disconnect", !.sess = s, !.was = status[s]]
  /\ UNCHANGED <<alive, pendingJoin, pendingOrder, pushSubscriptions, sends, subscribed,
                 rejected>>
  /\ Remember(s, FALSE, {})

(***************************************************************************)
(* An unhandled promise rejection either is only reported or ends the      *)
(* process, depending on the runtime.  When the process ends every         *)
(* connection is closed and the process-local rooms, continuations and     *)
(* subscriptions are gone.                                                 *)
(***************************************************************************)
ProcessExit ==
  /\ alive' = FALSE
  /\ status' = [t \in Sessions |-> IF status[t] = "connected" THEN "closed" ELSE status[t]]
  /\ rooms' = [t \in Sessions |-> {}]
  /\ pendingJoin' = EmptyBag
  /\ pendingOrder' = EmptyBag
  /\ pushSubscriptions' = <<>>
  /\ subscribed' = 0
  /\ rejected' = {}
  /\ sends' = <<>>

UnhandledRejection ==
  \/ ProcessExit
  \/ UNCHANGED <<alive, status, rooms, pendingJoin, pendingOrder, pushSubscriptions,
                 sends, subscribed, rejected>>

(***************************************************************************)
(* socket.on('joinAdmin', async (token) => ...), up to the await           *)
(***************************************************************************)
JoinAdmin(s, tok) ==
  /\ alive
  /\ status[s] = "connected"
  /\ LET decoded == JwtVerify(TokenReplace(tok)) IN
       IF decoded = "throw"
         THEN \* catch: socket.disconnect()
              /\ status' = StatusAfterDisconnect(s)
              /\ rooms' = RoomsAfterDisconnect(s)
              /\ pendingJoin' = pendingJoin
         ELSE \* await User.findById(decoded.id)
              /\ Pending < MaxPending
              /\ pendingJoin' = pendingJoin (+)
                   SetToBag({[op |-> "joinAdmin", sess |-> s, id |-> decoded]})
              /\ UNCHANGED <<status, rooms>>
  /\ emitted' = <<>>
  /\ delivered' = Nothing
  /\ last' = [NoLast EXCEPT !.op = "joinAdmin", !.sess = s,
                            !.cred = IF TokenVerifies(tok) THEN "pending" ELSE "failed"]
  /\ UNCHANGED <<alive, pendingOrder, pushSubscriptions, sends, subscribed, rejected>>
  /\ Remember(s, FALSE, {})

\* JoinAdminResume with the isAdmin test forgotten: if (user) socket.join('adminRoom')
JoinAdminResume_AnyUser(p, res) ==
  /\ alive
  /\ BagIn(p, pendingJoin)
  /\ p.op = "joinAdmin"
  /\ res \in FindUserById(p.id)
  /\ pendingJoin' = pendingJoin (-) SetToBag({p})
  /\ IF res \in Users
       THEN /\ rooms' \in RoomsAfterJoin(p.sess, AdminRoom)
            /\ UNCHANGED status
       ELSE /\ status' = StatusAfterDisconnect(p.sess)
            /\ rooms' = RoomsAfterDisconnect(p.sess)
  /\ emitted' = <<>>
  /\ delivered' = Nothing
  /\ last' = [NoLast EXCEPT !.op = "joinAdmin", !.sess = p.sess, !.res = res,
                            !.cred = Cred(UserVerifies("joinAdmin", res))]
  /\ UNCHANGED <<alive, pendingOrder, pushSubscriptions, sends, subscribed, rejected>>
  /\ Remember(p.sess, UserVerifies("joinAdmin", res), {})

\* the rest of joinAdmin, once User.findById has settled with res
JoinAdminResume(p, res) ==
  /\ alive
  /\ BagIn(p, pendingJoin)
  /\ p.op = "joinAdmin"
  /\ res \in FindUserById(p.id)
  /\ pendingJoin' = pendingJoin (-) SetToBag({p})
  /\ IF res \in Users /\ IsAdmin(res)
       THEN /\ rooms' \in RoomsAfterJoin(p.sess, AdminRoom)
            /\ UNCHANGED status
       ELSE /\ status' = StatusAfterDisconnect(p.sess)
            /\ rooms' = RoomsAfterDisconnect(p.sess)
  /\ emitted' = <<>>
  /\ delivered' = Nothing
  /\ last' = [NoLast EXCEPT !.op = "joinAdmin", !.sess = p.sess, !.res = res,
                            !.cred = Cred(UserVerifies("joinAdmin", res))]
  /\ UNCHANGED <<alive, pendingOrder, pushSubscriptions, sends, subscribed, rejected>>
  /\ Remember(p.sess, UserVerifies("joinAdmin", res), {})

(***************************************************************************)
(* socket.on('joinUser', async ({ token }) => ...), up to the await.       *)
(* The parameter is destructured before the try block is entered: with no  *)
(* payload the handler's promise is rejected and nothing catches it.       *)
(***************************************************************************)
JoinUser(s, tok) ==
  /\ alive
  /\ status[s] = "connected"
  /\ IF tok.kind = "nopayload"
       THEN UnhandledRejection
       ELSE /\ LET decoded == JwtVerify(TokenReplace(tok)) IN
                 IF decoded = "throw"
                   THEN \* catch: socket.disconnect()
                        /\ status' = StatusAfterDisconnect(s)
                        /\ rooms' = RoomsAfterDisconnect(s)
                        /\ pendingJoin' = pendingJoin
                   ELSE \* await User.findById(decoded.id)
                        /\ Pending < MaxPending
                        /\ pendingJoin' = pendingJoin (+)
                             SetToBag({[op |-> "joinUser", sess |-> s, id |-> decoded]})
                        /\ UNCHANGED <<status, rooms>>
            /\ UNCHANGED <<alive, pendingOrder, pushSubscriptions, sends, subscribed,
                           rejected>>
  /\ emitted' = <<>>
  /\ delivered' = Nothing
  /\ last' = [NoLast EXCEPT !.op = "joinUser", !.sess = s,
                            !.cred = IF TokenVerifies(tok) THEN "pending" ELSE "failed"]
  /\ Remember(s, FALSE, {})

\* JoinUserResume that makes the socket leave its other rooms before joining
JoinUserResume_Switch(p, res) ==
  /\ alive
  /\ BagIn(p, pendingJoin)
  /\ p.op = "joinUser"
  /\ res \in FindUserById(p.id)
  /\ pendingJoin' = pendingJoin (-) SetToBag({p})
  /\ IF res \in Users
       THEN /\ rooms' = [rooms EXCEPT ![p.sess] = {UserRoom(res)}]
            /\ UNCHANGED status
       ELSE /\ status' = StatusAfterDisconnect(p.sess)
            /\ rooms' = RoomsAfterDisconnect(p.sess)
  /\ emitted' = <<>>
  /\ delivered' = Nothing
  /\ last' = [NoLast EXCEPT !.op = "joinUser", !.sess = p.sess, !.res = res,
                            !.cred = Cred(UserVerifies("joinUser", res))]
  /\ UNCHANGED <<alive, pendingOrder, pushSubscriptions, sends, subscribed, rejected>>
  /\ Remember(p.sess, FALSE, IF UserVerifies("joinUser", res) THEN {res} ELSE {})

\* the rest of joinUser, once User.findById has settled with res
JoinUserResume(p, res) ==
  /\ alive
  /\ BagIn(p, pendingJoin)
  /\ p.op = "joinUser"
  /\ res \in FindUserById(p.id)
  /\ pendingJoin' = pendingJoin (-) SetToBag({p})
  /\ IF res \in Users
       THEN /\ rooms' \in RoomsAfterJoin(p.sess, UserRoom(res))
            /\ UNCHANGED status
       ELSE /\ status' = StatusAfterDisconnect(p.sess)
            /\ rooms' = RoomsAfterDisconnect(p.sess)
  /\ emitted' = <<>>
  /\ delivered' = Nothing
  /\ last' = [NoLast EXCEPT !.op = "joinUser", !.sess = p.sess, !.res = res,
                            !.cred = Cred(UserVerifies("joinUser", res))]
  /\ UNCHANGED <<alive, pendingOrder, pushSubscriptions, sends, subscribed, rejected>>
  /\ Remember(p.sess, FALSE, IF UserVerifies("joinUser", res) THEN {res} ELSE {})

(***************************************************************************)
(* socket.on('categoryUpdate') and socket.on('productUpdate')              *)
(***************************************************************************)
\* CategoryUpdate written with io.emit: the event goes to every connected socket
CategoryUpdate_ToAll(s) ==
  /\ alive
  /\ status[s] = "connected"
  /\ emitted' = <<[room |-> "", name |-> "categoryUpdate", payload |-> NoOrder]>>
  /\ delivered' = [t \in Sessions |->
                     IF status[t] = "connected"
                       THEN <<[name |-> "categoryUpdate", payload |-> NoOrder]>>
                       ELSE <<>>]
  /\ last' = [NoLast EXCEPT !.op = "categoryUpdate", !.sess = s]
  /\ UNCHANGED <<alive, status, rooms, pendingJoin, pendingOrder, pushSubscriptions,
                 sends, subscribed, rejected, adminAuthed, userAuthed>>

CategoryUpdate(s) ==
  /\ alive
  /\ status[s] = "connected"
  /\ emitted' = <<[room |-> AdminRoom, name |-> "categoryUpdate", payload |-> NoOrder]>>
  /\ delivered' = Deliver(emitted')
  /\ last' = [NoLast EXCEPT !.op = "categoryUpdate", !.sess = s]
  /\ UNCHANGED <<alive, status, rooms, pendingJoin, pendingOrder, pushSubscriptions,
                 sends, subscribed, rejected, adminAuthed, userAuthed>>

ProductUpdate(s) ==
  /\ alive
  /\ status[s] = "connected"
  /\ emitted' = <<[room |-> AdminRoom, name |-> "productUpdate", payload |-> NoOrder]>>
  /\ delivered' = Deliver(emitted')
  /\ last' = [NoLast EXCEPT !.op = "productUpdate", !.sess = s]
  /\ UNCHANGED <<alive, status, rooms, pendingJoin, pendingOrder, pushSubscriptions,
                 sends, subscribed, rejected, adminAuthed, userAuthed>>

(***************************************************************************)
(* socket.on('orderStatusUpdate', async (order) => ...)                    *)
(***************************************************************************)
\* InvalidOrder with the !order._id test forgotten
InvalidOrder_NoIdCheck(order) == order.shape # "object"

\* !order || typeof order !== 'object' || !order._id
InvalidOrder(order) == order.shape # "object" \/ order._id = "none"

\* !order.user || !order.user._id
MissingUser(order) == order.user \in {"none", "ref"}

\* OrderBroadcast with the emit to the owner's room forgotten
OrderBroadcast_AdminOnly(populatedOrder) ==
  <<[room |-> AdminRoom, name |-> "orderStatusUpdate", payload |-> populatedOrder]>>

\* the emits that end the handler
OrderBroadcast(populatedOrder) ==
  <<[room |-> AdminRoom, name |-> "orderStatusUpdate", payload |-> populatedOrder]>>
    \o (IF ~MissingUser(populatedOrder)
          THEN <<[room |-> UserRoom(populatedOrder.user), name |-> "orderStatusUpdate",
                  payload |-> populatedOrder]>>
          ELSE <<>>)

OrderStatusUpdate(s, order) ==
  /\ alive
  /\ status[s] = "connected"
  /\ IF InvalidOrder(order)
       THEN /\ emitted' = <<>>
            /\ last' = [NoLast EXCEPT !.op = "orderStatusUpdate",
                                      !.order = order]
            /\ UNCHANGED pendingOrder
       ELSE IF MissingUser(order)
         THEN \* await Order.findById(order._id).populate('user')
              /\ Pending < MaxPending
              /\ pendingOrder' = pendingOrder (+) SetToBag({[_id |-> order._id]})
              /\ emitted' = <<>>
              /\ last' = [NoLast EXCEPT !.op = "orderStatusUpdate",
                                        !.order = order, !.res = "pending"]
         ELSE /\ emitted' = OrderBroadcast(order)
              /\ last' = [NoLast EXCEPT !.op = "orderStatusUpdate",
                                        !.order = order]
              /\ UNCHANGED pendingOrder
  /\ delivered' = Deliver(emitted')
  /\ UNCHANGED <<alive, status, rooms, pendingJoin, pushSubscriptions, sends,
                 subscribed, rejected, adminAuthed, userAuthed>>

\* OrderStatusUpdateResume that tells the admins even when the order was not found
OrderStatusUpdateResume_AlwaysAdmin(p, res) ==
  /\ alive
  /\ BagIn(p, pendingOrder)
  /\ res \in FindOrderById(p._id)
  /\ emitted' = IF res = "found" THEN OrderBroadcast(OrderDoc(p._id))
                ELSE <<[room |-> AdminRoom, name |-> "orderStatusUpdate",
                        payload |-> [shape |-> "object", _id |-> p._id, user |-> "none"]]>>
  /\ pendingOrder' = pendingOrder (-) SetToBag({p})
  /\ delivered' = Deliver(emitted')
  /\ last' = [NoLast EXCEPT !.op = "orderStatusUpdate",
                            !.order = [shape |-> "object", _id |-> p._id, user |-> "none"],
                            !.res = res]
  /\ UNCHANGED <<alive, status, rooms, pendingJoin, pushSubscriptions, sends,
                 subscribed, rejected, adminAuthed, userAuthed>>

\* OrderStatusUpdateResume that issues the lookup again when it found nothing
OrderStatusUpdateResume_Retry(p, res) ==
  /\ alive
  /\ BagIn(p, pendingOrder)
  /\ res \in FindOrderById(p._id)
  /\ pendingOrder' = IF res = "found" THEN pendingOrder (-) SetToBag({p}) ELSE pendingOrder
  /\ emitted' = IF res = "found" THEN OrderBroadcast(OrderDoc(p._id)) ELSE <<>>
  /\ delivered' = Deliver(emitted')
  /\ last' = [NoLast EXCEPT !.op = "orderStatusUpdate",
                            !.order = [shape |-> "object", _id |-> p._id, user |-> "none"],
                            !.res = res]
  /\ UNCHANGED <<alive, status, rooms, pendingJoin, pushSubscriptions, sends,
                 subscribed, rejected, adminAuthed, userAuthed>>

\* the rest of orderStatusUpdate, once the order lookup has settled with res
OrderStatusUpdateResume(p, res) ==
  /\ alive
  /\ BagIn(p, pendingOrder)
  /\ res \in FindOrderById(p._id)
  /\ emitted' = IF res = "found" THEN OrderBroadcast(OrderDoc(p._id)) ELSE <<>>
  /\ pendingOrder' = pendingOrder (-) SetToBag({p})
  /\ delivered' = Deliver(emitted')
  /\ last' = [NoLast EXCEPT !.op = "orderStatusUpdate",
                            !.order = [shape |-> "object", _id |-> p._id, user |-> "none"],
                            !.res = res]
  /\ UNCHANGED <<alive, status, rooms, pendingJoin, pushSubscriptions, sends,
                 subscribed, rejected, adminAuthed, userAuthed>>

(***************************************************************************)
(* app.post('/api/push/subscribe'): u is req.user.id set by the auth       *)
(* middleware, e the endpoint in the request body.  Every request has a    *)
(* body object of its own; id tells the objects apart, as the reference    *)
(* comparison of the send handler does.                                    *)
(***************************************************************************)
Subscribe(u, e) ==
  /\ alive
  /\ pushSubscriptions' =
       Append(pushSubscriptions,
              [userId |-> u, subscription |-> [id |-> subscribed + 1, endpoint |-> e]])
  /\ subscribed' = subscribed + 1
  /\ emitted' = <<>>
  /\ delivered' = Nothing
  /\ last' = [NoLast EXCEPT !.op = "subscribe"]
  /\ UNCHANGED <<alive, status, rooms, pendingJoin, pendingOrder, rejected, sends,
                 adminAuthed, userAuthed>>

(***************************************************************************)
(* app.post('/api/push/send').  A request is recorded as                   *)
(*   userId               the filter in the body, "none" when absent/falsy *)
(*   targetSubscriptions  the registrations selected when it arrived       *)
(*   settled              one entry per webPush.sendNotification call, in  *)
(*                        call order: FALSE until the call settles         *)
(*   answer               the status sent, "none" while the handler awaits *)
(***************************************************************************)
SendFilters == {"none"} \cup Users
DeliveryResults == {"ok", "permanent", "transient"}

\* TargetSubscriptions that ignores the filter
TargetSubscriptions_All(userId) == pushSubscriptions

\* userId ? pushSubscriptions.filter(sub => sub.userId === userId) : pushSubscriptions
TargetSubscriptions(userId) ==
  IF userId # "none"
    THEN LET Matches(sub) == sub.userId = userId IN SelectSeq(pushSubscriptions, Matches)
    ELSE pushSubscriptions

\* NewSend that answers 200 when nothing is selected
NewSend_NoEmptyCheck(userId) ==
  LET targetSubscriptions == TargetSubscriptions(userId) IN
    [userId |-> userId,
     targetSubscriptions |-> targetSubscriptions,
     settled |-> [i \in 1..Len(targetSubscriptions) |-> FALSE],
     answer |-> IF Len(targetSubscriptions) = 0 THEN "200" ELSE "none"]

\* the handler up to its await: 404 when nothing is selected, else one
\* sendNotification call per selected registration
NewSend(userId) ==
  LET targetSubscriptions == TargetSubscriptions(userId) IN
    [userId |-> userId,
     targetSubscriptions |-> targetSubscriptions,
     settled |-> [i \in 1..Len(targetSubscriptions) |-> FALSE],
     answer |-> IF Len(targetSubscriptions) = 0 THEN "404" ELSE "none"]

\* what the model keeps of request r: all of it while the handler awaits, only
\* the answer afterwards
Kept(r) == IF r.answer = "none" THEN r ELSE [NoSend EXCEPT !.answer = r.answer]
Answered(r) == IF r.answer = "none" THEN NoSend ELSE r

Send(userId) ==
  /\ alive
  /\ Len(sends) < MaxSends
  /\ sends' = Append(sends, Kept(NewSend(userId)))
  /\ emitted' = <<>>
  /\ delivered' = Nothing
  /\ last' = [NoLast EXCEPT !.op = "send", !.send = Answered(NewSend(userId))]
  /\ UNCHANGED <<alive, status, rooms, pendingJoin, pendingOrder, pushSubscriptions,
                 subscribed, rejected, adminAuthed, userAuthed>>

\* AfterCatch that removes every registration of the same user
AfterCatch_ByUser(sub) ==
  LET Keep(other) == other.userId # sub.userId IN SelectSeq(pushSubscriptions, Keep)

\* AfterCatch that rebuilds the list from the registration's own position,
\* dropping whatever follows it
AfterCatch_Truncate(sub) ==
  LET Keep(other) == other.subscription.id < sub.subscription.id
  IN SelectSeq(pushSubscriptions, Keep)

\* .catch: pushSubscriptions.filter(sub => sub.subscription !== subscription)
AfterCatch(sub) ==
  LET Keep(other) == other.subscription # sub.subscription
  IN SelectSeq(pushSubscriptions, Keep)

\* AllSettled that lets the first rejection end the await, as Promise.all does
\* with promises that have no catch of their own
AllSettled_FailFast(settled, r) ==
  r # "ok" \/ \A i \in 1..Len(settled) : settled[i]

\* Promise.all over the caught promises: fulfilled when each has settled,
\* whatever the result r of the one that settled last
AllSettled(settled, r) == \A i \in 1..Len(settled) : settled[i]

\* the i-th sendNotification call of send k settles with r.  A rejection runs
\* the catch callback; when it was the last call to settle, the handler
\* resumes in the same turn of the event loop and answers 200.
DeliverySettles(k, i, r) ==
  /\ alive
  /\ k \in 1..Len(sends)
  /\ i \in 1..Len(sends[k].settled)
  /\ ~sends[k].settled[i]
  /\ r \in DeliveryResults
  /\ pushSubscriptions' = IF r = "ok" THEN pushSubscriptions
                          ELSE AfterCatch(sends[k].targetSubscriptions[i])
  /\ rejected' = IF r = "ok" THEN rejected
                 ELSE rejected \cup {sends[k].targetSubscriptions[i].subscription.id}
  /\ LET settled == [sends[k].settled EXCEPT ![i] = TRUE]
         request == [sends[k] EXCEPT !.settled = settled,
                                     !.answer = IF AllSettled(settled, r) THEN "200"
                                                ELSE "none"]
     IN /\ sends' = [sends EXCEPT ![k] = Kept(request)]
        /\ last' = [NoLast EXCEPT !.op = "delivery", !.res = r, !.send = Answered(request)]
  /\ emitted' = <<>>
  /\ delivered' = Nothing
  /\ UNCHANGED <<alive, status, rooms, pendingJoin, pendingOrder, subscribed,
                 adminAuthed, userAuthed>>

(***************************************************************************)
(* app.use(async (req, res, next) => ...): the new-visitor middleware.  It  *)
(* runs for every HTTP request; the step below is the part after its await. *)
(***************************************************************************)
Urls == {"/api/locations", "/api/orders"}
VisitorDoc == [shape |-> "object", _id |-> "v1", user |-> "none"]

\* req.originalUrl.startsWith('/api/locations')
IsLocationsUrl(url) == url = "/api/locations"

\* VisitorLocation.findOne().sort({ timestamp: -1 }).lean(): the latest visitor,
\* null (none stored), or a rejected query
FindLatestVisitor == {"found", "null", "error"}

\* NewVisitor written with io.emit: the event goes to every connected socket
NewVisitor_ToAll(url, res) ==
  /\ alive
  /\ res \in FindLatestVisitor
  /\ emitted' = IF ~IsLocationsUrl(url) /\ res = "found"
                  THEN <<[room |-> "", name |-> "newVisitor", payload |-> VisitorDoc]>>
                  ELSE <<>>
  /\ delivered' = [t \in Sessions |->
                     IF status[t] = "connected" /\ emitted' # <<>>
                       THEN <<[name |-> "newVisitor", payload |-> VisitorDoc]>>
                       ELSE <<>>]
  /\ last' = [NoLast EXCEPT !.op = "newVisitor"]
  /\ UNCHANGED <<alive, status, rooms, pendingJoin, pendingOrder, pushSubscriptions,
                 sends, subscribed, rejected, adminAuthed, userAuthed>>

NewVisitor(url, res) ==
  /\ alive
  /\ res \in FindLatestVisitor
  /\ emitted' = IF ~IsLocationsUrl(url) /\ res = "found"
                  THEN <<[room |-> AdminRoom, name |-> "newVisitor", payload |-> VisitorDoc]>>
                  ELSE <<>>
  /\ delivered' = Deliver(emitted')
  /\ last' = [NoLast EXCEPT !.op = "newVisitor"]
  /\ UNCHANGED <<alive, status, rooms, pendingJoin, pendingOrder, pushSubscriptions,
                 sends, subscribed, rejected, adminAuthed, userAuthed>>

JoinPendings == [op : {"joinAdmin", "joinUser"}, sess : Sessions, id : Users]
UserResults == Users \cup {"null", "error"}
OrderPendings == [_id : OrderIds]
OrderResults == {"found", "null", "error"}

\* the socket events and the lookups they await
SocketStep ==
  \/ \E s \in Sessions : Connect(s)
  \/ \E s \in Sessions : Disconnect(s)
  \/ \E s \in Sessions, tok \in Tokens : JoinAdmin(s, tok)
  \/ \E p \in JoinPendings, res \in UserResults : JoinAdminResume(p, res)
  \/ \E s \in Sessions, tok \in Tokens \cup {NoPayloadToken} : JoinUser(s, tok)
  \/ \E p \in JoinPendings, res \in UserResults : JoinUserResume(p, res)
  \/ \E s \in Sessions : CategoryUpdate(s)
  \/ \E s \in Sessions : ProductUpdate(s)
  \/ \E s \in Sessions, order \in OrderInputs : OrderStatusUpdate(s, order)
  \/ \E p \in OrderPendings, res \in OrderResults : OrderStatusUpdateResume(p, res)

(***************************************************************************)
(* The socket layer beside the subscribe requests                          *)
(***************************************************************************)
Next ==
  \/ SocketStep
  \/ \E u \in Users, e \in Endpoints : subscribed < MaxSubs /\ Subscribe(u, e)

Spec == Init /\ [][Next]_vars

(***************************************************************************)
(* The socket layer beside the HTTP requests that pass the new-visitor     *)
(* middleware: every broadcast the server makes                            *)
(***************************************************************************)
NextVisitor ==
  \/ SocketStep
  \/ \E url \in Urls, res \in FindLatestVisitor : NewVisitor(url, res)

SpecVisitor == Init /\ [][NextVisitor]_vars

(***************************************************************************)
(* The push notifier on its own, in a process that keeps running:          *)
(* subscribe and send requests and the deliveries of the sends.  Every     *)
(* sendNotification call settles: the transport answers or times out.      *)
(***************************************************************************)
NextPush ==
  \/ \E u \in Users, e \in Endpoints : subscribed < MaxSubscribes /\ Subscribe(u, e)
  \/ \E userId \in SendFilters : Send(userId)
  \/ \E k \in 1..MaxSends, i \in 1..MaxSubscribes, r \in DeliveryResults :
       DeliverySettles(k, i, r)

DeliveriesComplete ==
  \A k \in 1..MaxSends, i \in 1..MaxSubscribes :
    WF_vars(\E r \in DeliveryResults : DeliverySettles(k, i, r))

SpecPush == Init /\ [][NextPush]_vars /\ DeliveriesComplete

(***************************************************************************)
(* Properties                                                              *)
(***************************************************************************)
JoinOps == {"joinAdmin", "joinUser"}
Connected(s) == status[s] = "connected"
UserRoomsOf(s) == rooms[s] \cap UserRooms
Copies(n, ev) == [i \in 1..n |-> ev]

\* C1: once a joinAdmin or joinUser attempt whose credential verification
\* failed has completed, its session is disconnected and is a member of no room.
C1_FailedJoinDisconnects ==
  (last.op \in JoinOps /\ last.cred = "failed")
    => (status[last.sess] = "closed" /\ rooms[last.sess] = {})

\* C2: a session becomes a member of adminRoom only in a joinAdmin step of that
\* session whose credential verified and whose lookup returned a user with
\* isAdmin; no other step adds a session to adminRoom.
C2_AdminRoomOnlyForAdmins ==
  [][\A s \in Sessions :
       (AdminRoom \in rooms'[s] /\ AdminRoom \notin rooms[s])
         => /\ last'.op = "joinAdmin"
            /\ last'.sess = s
            /\ last'.cred = "verified"
            /\ last'.res \in Users
            /\ IsAdmin(last'.res)]_vars

C2_Witness ==
  /\ last.op = "joinAdmin"
  /\ last.cred = "verified"
  /\ AdminRoom \in rooms[last.sess]
  /\ \E t \in Sessions : Connected(t) /\ UserRoomsOf(t) # {} /\ AdminRoom \notin rooms[t]

\* C3: a session is a member of at most one user_<id> room.
C3_AtMostOneUserRoom ==
  \A s \in Sessions : Cardinality(UserRoomsOf(s)) <= 1

\* C4 as claimed: every connected session that has authenticated through
\* joinAdmin is a member of adminRoom and of no user_<id> room.
C4_AdminInNoUserRoom ==
  \A s \in adminAuthed : AdminRoom \in rooms[s] /\ UserRoomsOf(s) = {}

\* C4 as amended: every connected session that has authenticated through
\* joinAdmin is a member of adminRoom, and it is a member of user_<id> only for
\* the users it has also authenticated as through joinUser.
C4_AdminStaysInAdminRoom ==
  \A s \in adminAuthed :
    /\ Connected(s)
    /\ AdminRoom \in rooms[s]
    /\ UserRoomsOf(s) = {UserRoom(u) : u \in userAuthed[s]}

C4_Witness ==
  \E s \in adminAuthed :
    /\ last.op = "joinUser"
    /\ last.sess = s
    /\ last.cred = "verified"
    /\ rooms[s] = {AdminRoom, UserRoom(last.res)}

\* C5: no session that is not connected is a member of any room.
C5_NoRoomsWhenDisconnected ==
  \A s \in Sessions : ~Connected(s) => rooms[s] = {}

\* C6: disconnect handling on a connected session closes it and leaves it in no
\* room; run again on the closed session, whether as a repeated close or as the
\* socket.disconnect() of a join whose lookup failed, it changes neither the
\* membership nor the status of any session, and the process keeps running.
DisconnectHandled ==
  \/ last'.op = "disconnect"
  \/ last'.op \in JoinOps /\ last'.cred = "failed" /\ last'.res # "none"
C6_DisconnectIdempotent ==
  [][DisconnectHandled =>
       LET s == last'.sess IN
         /\ alive'
         /\ status'[s] = "closed"
         /\ \A t \in Sessions \ {s} : status'[t] = status[t] /\ rooms'[t] = rooms[t]
         /\ IF status[s] = "closed" THEN rooms'[s] = rooms[s] ELSE rooms'[s] = {}]_vars

C6_Witness ==
  /\ last.op = "disconnect"
  /\ last.was = "closed"
  /\ status[last.sess] = "closed"
  /\ rooms[last.sess] = {}
  /\ \E t \in Sessions : rooms[t] # {}

\* C7: after a categoryUpdate or productUpdate signal from a connected client,
\* every connected session in adminRoom has received exactly one event of that
\* name with no payload, and every other session has received nothing.
C7_CatalogToAdminsOnly ==
  last.op \in {"categoryUpdate", "productUpdate"} =>
    \A t \in Sessions :
      delivered[t] = IF Connected(t) /\ AdminRoom \in rooms[t]
                       THEN <<[name |-> last.op, payload |-> NoOrder]>>
                       ELSE <<>>

C7_Witness ==
  /\ last.op = "categoryUpdate"
  /\ Connected(last.sess)
  /\ rooms[last.sess] = {UserRoom("u2")}
  /\ delivered[last.sess] = <<>>
  /\ \E t \in Sessions : AdminRoom \in rooms[t] /\ Len(delivered[t]) = 1

\* C8: after an orderStatusUpdate whose order has an _id and a populated user
\* U, every connected session has received the order once for its membership
\* of adminRoom and once for its membership of user_U, and nothing else; a
\* session in neither room, such as one only in user_V, has received nothing.
PopulatedOrderStep ==
  /\ last.op = "orderStatusUpdate"
  /\ last.order.shape = "object"
  /\ last.order._id \in OrderIds
  /\ last.order.user \in Users
C8_OrderToAdminsAndOwner ==
  PopulatedOrderStep =>
    \A t \in Sessions :
      LET n == (IF Connected(t) /\ AdminRoom \in rooms[t] THEN 1 ELSE 0)
                 + (IF Connected(t) /\ UserRoom(last.order.user) \in rooms[t] THEN 1 ELSE 0)
      IN delivered[t] = Copies(n, [name |-> "orderStatusUpdate", payload |-> last.order])

C8_Witness ==
  /\ PopulatedOrderStep
  /\ last.order.user = "u2"
  /\ \E t \in Sessions : rooms[t] = {UserRoom("u2")} /\ Len(delivered[t]) = 1
  /\ \E t \in Sessions : Connected(t) /\ rooms[t] = {UserRoom("u1")} /\ delivered[t] = <<>>

\* C9 as claimed: when the handler of an orderStatusUpdate with a valid _id and
\* no populated user ends without the lookup having produced an owner, it has
\* emitted to adminRoom and to no user_<id> room.
UnresolvedOrderStep ==
  /\ last.op = "orderStatusUpdate"
  /\ last.res \in {"found", "null", "error"}
  /\ (last.res = "found" => OrderDoc(last.order._id).user \notin Users)
EmittedRooms == {emitted[i].room : i \in 1..Len(emitted)}
C9_UnresolvedAlwaysToAdmins ==
  UnresolvedOrderStep => (EmittedRooms = {AdminRoom})

\* C9 as amended: such a handler never emits to a user_<id> room; it emits the
\* stored order to adminRoom when the lookup returned the order, and emits
\* nothing when the lookup returned nothing or failed.
C9_UnresolvedNeverToUsers ==
  UnresolvedOrderStep =>
    IF last.res = "found"
      THEN emitted = <<[room |-> AdminRoom, name |-> "orderStatusUpdate",
                        payload |-> OrderDoc(last.order._id)]>>
      ELSE emitted = <<>> /\ delivered = Nothing

C9_Witness ==
  /\ UnresolvedOrderStep
  /\ last.res = "found"
  /\ \E t \in Sessions : AdminRoom \in rooms[t] /\ Len(delivered[t]) = 1
  /\ \E t \in Sessions : Connected(t) /\ UserRoomsOf(t) # {} /\ delivered[t] = <<>>

\* C10: an orderStatusUpdate whose order is missing, is not an object or has no
\* _id emits nothing, delivers nothing, starts no lookup and leaves the sessions,
\* the rooms and the push subscriptions as they were.
C10_InvalidOrderNoEffect ==
  [][(last'.op = "orderStatusUpdate"
        /\ (last'.order.shape # "object" \/ last'.order._id = "none"))
       => /\ emitted' = <<>>
          /\ delivered' = Nothing
          /\ UNCHANGED <<alive, status, rooms, pendingJoin, pendingOrder,
                         pushSubscriptions>>]_vars

C10_Witness ==
  /\ last.op = "orderStatusUpdate"
  /\ last.order.shape = "object"
  /\ last.order._id = "none"
  /\ pushSubscriptions # <<>>
  /\ \E t \in Sessions : Connected(t) /\ AdminRoom \in rooms[t]
  /\ \E t \in Sessions : Connected(t) /\ UserRoom(last.order.user) \in rooms[t]

\* C18: when the lookup of an orderStatusUpdate without a populated user returns
\* nothing or fails, the event is dropped: the step emits nothing to adminRoom
\* or to any user room, delivers nothing, ends the handler without issuing the
\* lookup again, and changes no session, room or subscription.
C18_FailedLookupDropsEvent ==
  [][(last'.op = "orderStatusUpdate" /\ last'.res \in {"null", "error"})
       => /\ emitted' = <<>>
          /\ delivered' = Nothing
          /\ pendingOrder' \sqsubseteq pendingOrder
          /\ BagCardinality(pendingOrder') = BagCardinality(pendingOrder) - 1
          /\ UNCHANGED <<alive, status, rooms, pendingJoin, pushSubscriptions>>]_vars

C18_Witness ==
  /\ last.op = "orderStatusUpdate"
  /\ last.res = "null"
  /\ pendingOrder = EmptyBag
  /\ delivered = Nothing
  /\ \E t \in Sessions : Connected(t) /\ AdminRoom \in rooms[t]
  /\ \E t \in Sessions : Connected(t) /\ UserRoom("u2") \in rooms[t]

\* C20: a session that has never completed a successful joinAdmin or joinUser
\* receives no broadcast (categoryUpdate, productUpdate, orderStatusUpdate,
\* newVisitor), whatever step was taken.
C20_UnauthenticatedReceivesNothing ==
  \A t \in Sessions :
    (t \notin adminAuthed /\ userAuthed[t] = {}) => delivered[t] = <<>>

C20_Witness ==
  /\ last.op = "newVisitor"
  /\ \E t \in Sessions :
       Connected(t) /\ t \notin adminAuthed /\ userAuthed[t] = {} /\ delivered[t] = <<>>
  /\ \E t \in Sessions :
       t \in adminAuthed /\ delivered[t] = <<[name |-> "newVisitor", payload |-> VisitorDoc]>>

\* C19: within a room, events are delivered to a member session in the order in
\* which they were handled, also when the earlier event awaits its order lookup:
\* a session of adminRoom that has just been sent an event handled while an
\* earlier orderStatusUpdate was still awaiting its lookup is not sent that
\* earlier event afterwards.
LaterEventSent(t) ==
  /\ last.op \in {"orderStatusUpdate", "categoryUpdate", "productUpdate"}
  /\ last.res = "none"
  /\ pendingOrder # EmptyBag
  /\ t \in Receivers(AdminRoom)
  /\ delivered[t] # <<>>
EarlierEventSent(t) ==
  /\ last.op = "orderStatusUpdate"
  /\ last.res = "found"
  /\ t \in Receivers(AdminRoom)
  /\ delivered[t] # <<>>
C19_DeliveredInHandlingOrder ==
  [][\A t \in Sessions : ~(LaterEventSent(t) /\ EarlierEventSent(t)')]_vars

(***************************************************************************)
(* Properties of the push notifier                                         *)
(***************************************************************************)
Range(seq) == {seq[i] : i \in 1..Len(seq)}
Selects(userId, sub) == userId = "none" \/ sub.userId = userId
\* the request a send step has just received
Arrived == IF last.send.answer = "none" THEN sends[Len(sends)] ELSE last.send
SendCompleted == last.op = "delivery" /\ last.send.answer = "200"

\* C11: a send request that selects no registration (a userId filter no
\* registration carries, or no filter and an empty list) is answered 404,
\* makes no delivery attempt and leaves the list as it was.
C11_EmptySelectionNotFound ==
  [][(last'.op = "send" /\ \A sub \in Range(pushSubscriptions) : ~Selects(Arrived'.userId, sub))
       => /\ Arrived'.answer = "404"
          /\ Arrived'.settled = <<>>
          /\ sends'[Len(sends')].answer = "404"
          /\ pushSubscriptions' = pushSubscriptions
          /\ rejected' = rejected]_vars

C11_Witness ==
  /\ last.op = "send"
  /\ last.send.answer = "404"
  /\ last.send.userId = "u1"
  /\ pushSubscriptions # <<>>
  /\ \A sub \in Range(pushSubscriptions) : sub.userId = "u2"

\* C12: when a send completes, delivery has been attempted once to each
\* registration it selected; those whose delivery was rejected are absent from
\* the list and those whose delivery succeeded are still in it (unless a
\* delivery of another send to the same registration was rejected).
C12_RejectedRemovedOthersKept ==
  SendCompleted =>
    LET targets == last.send.targetSubscriptions IN
      /\ Len(last.send.settled) = Len(targets)
      /\ Cardinality(Range(targets)) = Len(targets)
      /\ \A sub \in Range(targets) :
           sub \in Range(pushSubscriptions) <=> sub.subscription.id \notin rejected

C12_Witness ==
  /\ SendCompleted
  /\ Len(sends) = 1
  /\ last.res = "permanent"
  /\ Len(last.send.targetSubscriptions) = 2
  /\ Len(pushSubscriptions) = 1
  /\ pushSubscriptions[1].userId = last.send.targetSubscriptions[2].userId
  /\ pushSubscriptions[1] = last.send.targetSubscriptions[1]

\* C13: a delivery that fails with a transient transport error leaves the list
\* of registrations as it was.
C13_TransientFailureRetains ==
  [][(last'.op = "delivery" /\ last'.res = "transient")
       => pushSubscriptions' = pushSubscriptions]_vars

\* C14: a send with userId filter U attempts delivery to exactly the
\* registrations that carry U at the time of the call, once each and in list
\* order; a send without a filter attempts delivery to every registration.
C14_FilterSelectsByUser ==
  [][last'.op = "send" =>
       LET targets == Arrived'.targetSubscriptions IN
         /\ Len(Arrived'.settled) = Len(targets)
         /\ Cardinality(Range(targets)) = Len(targets)
         /\ \A sub \in Range(targets) : sub \in Range(pushSubscriptions)
         /\ \A sub \in Range(pushSubscriptions) :
              sub \in Range(targets) <=> Selects(Arrived'.userId, sub)]_vars

C14_Witness ==
  /\ last.op = "send"
  /\ Len(pushSubscriptions) = 2
  /\ Arrived.userId = "u2"
  /\ Arrived.targetSubscriptions = <<pushSubscriptions[2]>>
  /\ pushSubscriptions[1].userId = "u1"

\* C15: a send is answered 200 exactly when the last of its deliveries has
\* settled, whether deliveries succeeded or failed; a delivery that fails
\* leaves every other delivery of every send as it was, and no answer is an
\* error; every send request received is eventually answered.
AnsweredWhenAllSettled ==
  /\ SendCompleted => \A i \in 1..Len(last.send.settled) : last.send.settled[i]
  /\ \A k \in 1..Len(sends) :
       /\ sends[k].answer \in {"none", "200", "404"}
       /\ sends[k].answer = "none" => \E i \in 1..Len(sends[k].settled) : ~sends[k].settled[i]
Unsettled(r) == {i \in 1..Len(r.settled) : ~r.settled[i]}
FailureIsolated ==
  (last'.op = "delivery" /\ last'.res # "ok") =>
    /\ Len(sends') = Len(sends)
    /\ \A k \in 1..Len(sends) :
         \/ sends'[k] = sends[k]
         \/ /\ sends[k].answer = "none"
            /\ Cardinality(Unsettled(sends[k])) = 1 + Cardinality(Unsettled(sends'[k]))
            /\ sends'[k].answer = IF Unsettled(sends'[k]) = {} THEN "200" ELSE "none"
C15_AnsweredAfterAllDeliveries ==
  /\ []AnsweredWhenAllSettled
  /\ [][FailureIsolated]_vars
  /\ \A k \in 1..MaxSends :
       (Len(sends) >= k) ~> (Len(sends) >= k /\ sends[k].answer # "none")

C15_Witness ==
  /\ SendCompleted
  /\ last.res = "ok"
  /\ Len(last.send.targetSubscriptions) = 2
  /\ last.send.targetSubscriptions[1].subscription.id \in rejected
  /\ last.send.targetSubscriptions[2] \in Range(pushSubscriptions)

\* C16: an order step that emits to user_U while no connected session is in
\* user_U, and U has a push registration, starts a send to U's registrations.
OrderOwnerUnreached(u) ==
  /\ last.op = "orderStatusUpdate"
  /\ UserRoom(u) \in EmittedRooms
  /\ Receivers(UserRoom(u)) = {}
  /\ \E sub \in Range(pushSubscriptions) : sub.userId = u
C16_PushFallbackInvoked ==
  [][\A u \in Users : OrderOwnerUnreached(u)' => Len(sends') > Len(sends)]_vars

\* C17: under every interleaving of subscribe requests, concurrent sends and
\* their failure callbacks, the list holds exactly the objects subscribed so
\* far minus those whose delivery was rejected, each once and in the order of
\* subscription; in particular when every send has been answered.
C17_RegistryIsSubscribedMinusRejected ==
  /\ rejected \subseteq 1..subscribed
  /\ {sub.subscription.id : sub \in Range(pushSubscriptions)} = (1..subscribed) \ rejected
  /\ \A i, j \in 1..Len(pushSubscriptions) :
       i < j => pushSubscriptions[i].subscription.id < pushSubscriptions[j].subscription.id

C17_Witness ==
  /\ Len(sends) = MaxSends
  /\ \A k \in 1..Len(sends) : sends[k].answer = "200"
  /\ subscribed = MaxSubscribes
  /\ rejected = {1}
  /\ Len(pushSubscriptions) = 1
  /\ last.op = "subscribe"
====
